---- MODULE Spec2Model ----
(***************************************************************************)
(* Protected QR service: token packing/signing (QrService.generate),       *)
(* token decoding (QrService.decodeToken), the generate/verify request     *)
(* handlers with their two suspension points (pattern service call, Mongo  *)
(* insert), input validation (zod schema + assertHexLength) and start-up   *)
(* configuration.                                                          *)
(*                                                                         *)
(* Representation.  A JavaScript string is a sequence of one-character     *)
(* strings, a Buffer is a sequence of bytes 0..255, null/undefined is the  *)
(* empty tuple Null and a present value v is Some(v) = <<v>>.  The 48-bit  *)
(* millisecond clock is a pair [hi, lo] of 24-bit halves (hi*2^24 + lo).   *)
(* A confidence score is a number of hundredths.                           *)
(***************************************************************************)
EXTENDS Integers, Sequences, FiniteSets, TLC

VARIABLES
    req,                \* request id -> state of that HTTP request / invocation
    auditCollection,    \* qr_audit: sequence of inserted documents
    verifyCollection,   \* qr_verify_logs: sequence of inserted documents
    env,                \* process.env: variable name -> Null | Some(string)
    config,             \* the config object (Null until the module is loaded)
    proc                \* "loading" | "connecting" | "serving" | "exited"

vars == <<req, auditCollection, verifyCollection, env, config, proc>>

----------------------------------------------------------------------------
(* Nullable values *)

Null == <<>>
Some(v) == <<v>>
IsNull(x) == x = <<>>
Val(x) == x[1]

----------------------------------------------------------------------------
(* Bounds of the model *)

\* number of HTTP requests that may be in flight together
MaxReq == 2

----------------------------------------------------------------------------
(* Characters, hex and Base64 *)

LowerHex == <<"0","1","2","3","4","5","6","7","8","9","a","b","c","d","e","f">>
UpperHex == <<"0","1","2","3","4","5","6","7","8","9","A","B","C","D","E","F">>

B64Alphabet ==
    <<"A","B","C","D","E","F","G","H","I","J","K","L","M",
      "N","O","P","Q","R","S","T","U","V","W","X","Y","Z",
      "a","b","c","d","e","f","g","h","i","j","k","l","m",
      "n","o","p","q","r","s","t","u","v","w","x","y","z",
      "0","1","2","3","4","5","6","7","8","9","+","/">>

\* value of a hex digit, -1 when c is none ([0-9a-fA-F], either case)
HexValue(c) ==
    IF \E i \in 1..16 : LowerHex[i] = c
    THEN (CHOOSE i \in 1..16 : LowerHex[i] = c) - 1
    ELSE IF \E i \in 1..16 : UpperHex[i] = c
         THEN (CHOOSE i \in 1..16 : UpperHex[i] = c) - 1
         ELSE -1

\* the regular expression /^[0-9a-fA-F]+$/
IsHexString(value) ==
    /\ Len(value) >= 1
    /\ \A i \in 1..Len(value) : HexValue(value[i]) >= 0

\* Buffer.from(value, "hex"): one byte per pair of digits, stops at the
\* first pair that is not two hex digits (an odd trailing digit is dropped)
RECURSIVE HexPairs(_, _)
HexPairs(value, i) ==
    IF i + 1 > Len(value) THEN <<>>
    ELSE IF HexValue(value[i]) < 0 \/ HexValue(value[i + 1]) < 0 THEN <<>>
    ELSE <<16 * HexValue(value[i]) + HexValue(value[i + 1])>> \o HexPairs(value, i + 2)

hexToBuffer(value) == HexPairs(value, 1)

\* buf.toString("hex"): two lowercase digits per byte
RECURSIVE ToHex(_)
ToHex(bytes) ==
    IF bytes = <<>> THEN <<>>
    ELSE <<LowerHex[(Head(bytes) \div 16) + 1], LowerHex[(Head(bytes) % 16) + 1]>>
         \o ToHex(Tail(bytes))

\* str.replace(/from/g, to) for a one-character pattern
ReplaceAll(s, from, to) == [i \in 1..Len(s) |-> IF s[i] = from THEN to ELSE s[i]]

\* str.replace(/c/g, "")
RemoveAll(s, c) == SelectSeq(s, LAMBDA x : x # c)

\* "=".repeat(n)
Repeat(c, n) == [i \in 1..n |-> c]

\* buf.toString("base64"): standard alphabet, '=' padding to a multiple of 4
RECURSIVE ToBase64(_)
ToBase64(bytes) ==
    IF Len(bytes) = 0 THEN <<>>
    ELSE IF Len(bytes) = 1 THEN
        <<B64Alphabet[(bytes[1] \div 4) + 1],
          B64Alphabet[((bytes[1] % 4) * 16) + 1], "=", "=">>
    ELSE IF Len(bytes) = 2 THEN
        <<B64Alphabet[(bytes[1] \div 4) + 1],
          B64Alphabet[((bytes[1] % 4) * 16 + (bytes[2] \div 16)) + 1],
          B64Alphabet[((bytes[2] % 16) * 4) + 1], "=">>
    ELSE
        <<B64Alphabet[(bytes[1] \div 4) + 1],
          B64Alphabet[((bytes[1] % 4) * 16 + (bytes[2] \div 16)) + 1],
          B64Alphabet[((bytes[2] % 16) * 4 + (bytes[3] \div 64)) + 1],
          B64Alphabet[(bytes[3] % 64) + 1]>>
        \o ToBase64(SubSeq(bytes, 4, Len(bytes)))

\* value of a Base64 character as Node's decoder reads it: the standard
\* alphabet, '-' and '_' as 62 and 63, -1 for anything else
Unbase64(c) ==
    IF \E i \in 1..64 : B64Alphabet[i] = c
    THEN (CHOOSE i \in 1..64 : B64Alphabet[i] = c) - 1
    ELSE IF c = "-" THEN 62
    ELSE IF c = "_" THEN 63
    ELSE -1

\* the characters the decoder consumes: it stops at the first '=' and
\* skips every character outside the alphabet
RECURSIVE Sextets(_)
Sextets(s) ==
    IF s = <<>> \/ Head(s) = "=" THEN <<>>
    ELSE IF Unbase64(Head(s)) < 0 THEN Sextets(Tail(s))
    ELSE <<Unbase64(Head(s))>> \o Sextets(Tail(s))

\* Buffer.from(text, "base64"): never throws; n consumed characters give
\* floor(6n/8) bytes
FromBase64(s) ==
    LET x == Sextets(s)
        n == (6 * Len(x)) \div 8
        byte(j) ==
            LET q == ((8 * (j - 1)) \div 6) + 1
                r == (8 * (j - 1)) % 6
            IN  IF r = 0 THEN x[q] * 4 + (x[q + 1] \div 16)
                ELSE IF r = 2 THEN (x[q] % 16) * 16 + (x[q + 1] \div 4)
                ELSE (x[q] % 4) * 64 + x[q + 1]
    IN  [j \in 1..n |-> byte(j)]

----------------------------------------------------------------------------
(* Token protocol: QrService.generate lines 55-82, QrService.decodeToken *)

PayloadLength == 34
SigHexLength == 32
DigestLength == 32

\* buf.writeUIntBE(timestampMs, 0, 6): six bytes, most significant first
writeUIntBE(timestampMs) ==
    <<timestampMs.hi \div 65536, (timestampMs.hi \div 256) % 256, timestampMs.hi % 256,
      timestampMs.lo \div 65536, (timestampMs.lo \div 256) % 256, timestampMs.lo % 256>>

\* Buffer.concat([tsBuffer, hexToBuffer(data_hash), ...])
payloadBinary(input, timestampMs) ==
    writeUIntBE(timestampMs)
    \o hexToBuffer(input.data_hash)
    \o hexToBuffer(input.metadata_series)
    \o hexToBuffer(input.metadata_issued)
    \o hexToBuffer(input.metadata_expiry)

\* crypto.createHmac("sha256", secret).update(bytes).digest(): SHA-256 is
\* not computed here; the digest is a deterministic keyed function of
\* (secret, bytes) with a 32-byte result, which is all the service relies on.
KeySeed(secret) ==
    CASE secret = "s3cr3t" -> 17
      [] secret = "other-secret" -> 91
      [] OTHER -> 5

RECURSIVE Absorb(_, _, _)
Absorb(acc, bytes, i) ==
    IF i > Len(bytes) THEN acc
    ELSE Absorb((acc * 33 + bytes[i] + i) % 65521, bytes, i + 1)

createHmac(secret, bytes) ==
    LET a == Absorb(KeySeed(secret), bytes, 1)
    IN  [k \in 1..DigestLength |-> (a * k + KeySeed(secret) * 7 + k * k) % 256]

\* .digest("hex").slice(0, 32)
hmacHex(secret, bytes) == SubSeq(ToHex(createHmac(secret, bytes)), 1, SigHexLength)

\* (variant) the '=' padding is kept
payloadB64_padded(bytes) ==
    ReplaceAll(ReplaceAll(ToBase64(bytes), "+", "-"), "/", "_")

\* .toString("base64").replace(/\+/g, "-").replace(/\//g, "_").replace(/=/g, "")
payloadB64(bytes) ==
    RemoveAll(ReplaceAll(ReplaceAll(ToBase64(bytes), "+", "-"), "/", "_"), "=")

\* `${payloadB64}.${hmac}`
buildToken(input, timestampMs, secret) ==
    LET bin == payloadBinary(input, timestampMs)
    IN  payloadB64(bin) \o <<".">> \o hmacHex(secret, bin)

\* token.split(".")[0]: the text before the first '.', the whole text when
\* there is none
RECURSIVE FirstSegment(_)
FirstSegment(token) ==
    IF token = <<>> \/ Head(token) = "." THEN <<>>
    ELSE <<Head(token)>> \o FirstSegment(Tail(token))

\* (variant) the field offsets are taken one byte early
decodeToken_offByOne(token) ==
    LET seg == FirstSegment(token)
        padded == ReplaceAll(ReplaceAll(seg, "-", "+"), "_", "/")
        padLength == (4 - (Len(padded) % 4)) % 4
        paddedB64 == padded \o Repeat("=", padLength)
        payload == FromBase64(paddedB64)
    IN  IF Len(payload) # PayloadLength THEN Null
        ELSE Some([data_hash |-> ToHex(SubSeq(payload, 6, 9)),
                   metadata_series |-> ToHex(SubSeq(payload, 10, 17)),
                   metadata_issued |-> ToHex(SubSeq(payload, 18, 25)),
                   metadata_expiry |-> ToHex(SubSeq(payload, 26, 33))])

\* (variant) only a payload that is too short is rejected
decodeToken_atLeast(token) ==
    LET seg == FirstSegment(token)
        padded == ReplaceAll(ReplaceAll(seg, "-", "+"), "_", "/")
        padLength == (4 - (Len(padded) % 4)) % 4
        paddedB64 == padded \o Repeat("=", padLength)
        payload == FromBase64(paddedB64)
    IN  IF Len(payload) < PayloadLength THEN Null
        ELSE Some([data_hash |-> ToHex(SubSeq(payload, 7, 10)),
                   metadata_series |-> ToHex(SubSeq(payload, 11, 18)),
                   metadata_issued |-> ToHex(SubSeq(payload, 19, 26)),
                   metadata_expiry |-> ToHex(SubSeq(payload, 27, 34))])

\* QrService.decodeToken: Null, or Some(the four fields as hex text)
decodeToken(token) ==
    LET seg == FirstSegment(token)
        padded == ReplaceAll(ReplaceAll(seg, "-", "+"), "_", "/")
        padLength == (4 - (Len(padded) % 4)) % 4
        paddedB64 == padded \o Repeat("=", padLength)
        payload == FromBase64(paddedB64)
    IN  IF Len(payload) # PayloadLength THEN Null
        ELSE Some([data_hash |-> ToHex(SubSeq(payload, 7, 10)),
                   metadata_series |-> ToHex(SubSeq(payload, 11, 18)),
                   metadata_issued |-> ToHex(SubSeq(payload, 19, 26)),
                   metadata_expiry |-> ToHex(SubSeq(payload, 27, 34))])

----------------------------------------------------------------------------
(* Input validation: generateQrSchema (zod) and assertHexLength *)

Fields == <<"data_hash", "metadata_series", "metadata_issued", "metadata_expiry">>

\* z.string().length(8) / .length(16): the length each field must have
SchemaLength(f) == IF f = "data_hash" THEN 8 ELSE 16

\* generateQrSchema.safeParse(body).error.flatten().fieldErrors: the fields
\* with an issue; zod collects the issues of all fields before it reports.
\* The schema constrains the length only.
fieldErrors(body) ==
    {Fields[i] : i \in {j \in 1..4 : Len(body[Fields[j]]) # SchemaLength(Fields[j])}}

\* An error travelling to errorHandler: an HttpException (http = TRUE) with
\* its status, message and the fields its message or details name, or any
\* other Error.
HttpException(status, message, fields) ==
    [http |-> TRUE, status |-> status, message |-> message, fields |-> fields]
OtherError(message) ==
    [http |-> FALSE, status |-> 0, message |-> message, fields |-> {}]

\* assertHexLength(label, value, expectedLength): Null when it returns,
\* Some(the HttpException) when it throws
assertHexLength(label, value, expectedLength) ==
    IF ~IsHexString(value)
    THEN Some(HttpException(400, <<label, "must be hex string">>, {label}))
    ELSE IF Len(value) # expectedLength
    THEN Some(HttpException(400, <<label, "must be N hex chars">>, {label}))
    ELSE Null

\* the four assertHexLength calls of generate, in order: the first one that
\* throws ends the function
RECURSIVE assertAll(_, _)
assertAll(input, i) ==
    IF i > 4 THEN Null
    ELSE LET e == assertHexLength(Fields[i], input[Fields[i]],
                                  IF i = 1 THEN 8 ELSE 16)
         IN  IF IsNull(e) THEN assertAll(input, i + 1) ELSE e

----------------------------------------------------------------------------
(* HTTP responses *)

\* errorHandler(err): an HttpException keeps its status, message and
\* details; anything else becomes a 500 carrying the message only
errorHandler(err) ==
    IF err.http
    THEN [status |-> err.status,
          error |-> Some([message |-> err.message, fields |-> err.fields]),
          data |-> Null]
    ELSE [status |-> 500,
          error |-> Some([message |-> err.message, fields |-> {}]),
          data |-> Null]

\* res.status(200).json(...)
okResponse(data) ==
    [status |-> 200, error |-> Null, data |-> Some(data)]

----------------------------------------------------------------------------
(* Start-up configuration *)

EnvNames == {"PORT", "MONGO_URI", "MONGO_DB", "PYTHON_SERVICE_URL",
             "HMAC_SECRET", "LOG_LEVEL", "REQUEST_TIMEOUT_MS"}

\* Number(text) for the texts the model's environments hold
NumberOf(text) ==
    CASE text = "" -> 0
      [] text = "3000" -> 3000
      [] text = "5000" -> 5000

\* required(key, fallback): Null when it throws "Missing required env",
\* Some(value) otherwise; an empty string counts as missing (!value)
required(e, key, fallback) ==
    LET value == IF IsNull(e[key]) THEN fallback ELSE e[key]
    IN  IF IsNull(value) \/ Val(value) = "" THEN Null ELSE value

\* the config object literal: Null when one of its required(...) calls
\* throws while the module is evaluated
loadConfig(e) ==
    IF \/ IsNull(required(e, "MONGO_URI", Null))
       \/ IsNull(required(e, "MONGO_DB", Some("protected_qr")))
       \/ IsNull(required(e, "PYTHON_SERVICE_URL", Null))
       \/ IsNull(required(e, "HMAC_SECRET", Null))
    THEN Null
    ELSE Some([port |-> IF IsNull(e["PORT"]) THEN 8080 ELSE NumberOf(Val(e["PORT"])),
               mongoUri |-> Val(required(e, "MONGO_URI", Null)),
               mongoDb |-> Val(required(e, "MONGO_DB", Some("protected_qr"))),
               pythonServiceUrl |-> Val(required(e, "PYTHON_SERVICE_URL", Null)),
               hmacSecret |-> Val(required(e, "HMAC_SECRET", Null)),
               logLevel |-> IF IsNull(e["LOG_LEVEL"]) THEN "info" ELSE Val(e["LOG_LEVEL"]),
               requestTimeoutMs |-> IF IsNull(e["REQUEST_TIMEOUT_MS"]) THEN 10000
                                    ELSE NumberOf(Val(e["REQUEST_TIMEOUT_MS"]))])

\* the texts a deployment may give each variable
EnvValue(k) ==
    CASE k = "PORT" -> "3000"
      [] k = "MONGO_URI" -> "mongodb://mongo:27017"
      [] k = "MONGO_DB" -> "qr"
      [] k = "PYTHON_SERVICE_URL" -> "http://python:8000"
      [] k = "HMAC_SECRET" -> "s3cr3t"
      [] k = "LOG_LEVEL" -> "debug"
      [] k = "REQUEST_TIMEOUT_MS" -> "5000"

\* an environment that sets every variable
FullEnv == [k \in EnvNames |-> Some(EnvValue(k))]

----------------------------------------------------------------------------
(* Requests.  A request runs its synchronous code in one step and gives up *)
(* control only at an await: the axios call to the pattern service and the *)
(* insertOne on the Mongo collection.                                      *)

Reqs == DOMAIN req

IdleReq ==
    [kind |-> "none",           \* "generate" | "verify" once received
     pc |-> "idle",             \* "idle" | "render" | "detect" | "insert" | "done"
     body |-> Null,             \* req.body of a generate request
     input |-> Null,            \* parsed.data, passed to service.generate
     serviceCalled |-> FALSE,   \* the controller reached service.generate / verify
     timestampMs |-> Null,      \* Date.now() captured by generate
     token |-> Null,            \* generate's token
     calls |-> 0,               \* axios.post calls this request has issued
     timeout |-> Null,          \* the timeout option of the call being awaited
     pythonRes |-> Null,        \* Some([data |-> ...]) once axios resolved
     upstreamFailed |-> FALSE,  \* axios rejected (error status, network, timeout)
     qrImageBase64 |-> Null,    \* generate's local
     decodedMeta |-> Null,      \* verify's local
     insertFailed |-> FALSE,    \* insertOne rejected
     response |-> Null]         \* the HTTP response sent

secret == Val(config).hmacSecret

\* JavaScript: x ?? d
Coalesce(x, d) == IF IsNull(x) THEN d ELSE Val(x)

\* JavaScript: Boolean(x) for x undefined, null, true or false
ToBoolean(x) == IF IsNull(x) THEN FALSE ELSE Val(x)

\* JavaScript: truthiness of a string that may be undefined or null
Truthy(text) == ~IsNull(text) /\ Val(text) # <<>>

\* const { token, confidence_score, is_authentic } = pythonRes.data || {}
destructure(data) ==
    IF IsNull(data)
    THEN [token |-> Null, confidence_score |-> Null, is_authentic |-> Null]
    ELSE Val(data)

\* the document generate inserts into qr_audit; `by` is not a field of the
\* stored document: it records which invocation made the insert
auditDocument(r, token, input, now) ==
    [token |-> token,
     data_hash |-> input.data_hash,
     metadata_series |-> input.metadata_series,
     metadata_issued |-> input.metadata_issued,
     metadata_expiry |-> input.metadata_expiry,
     created_at |-> now,
     by |-> r]

\* the object generate returns
generateOutput(token, qrImageBase64) ==
    [token |-> token, qr_image_base64 |-> qrImageBase64]

\* the document verify inserts into qr_verify_logs (`by` as above)
verifyDocument(r, data, now) ==
    [token |-> destructure(data).token,
     confidence_score |-> Coalesce(destructure(data).confidence_score, 0),
     is_authentic |-> ToBoolean(destructure(data).is_authentic),
     created_at |-> now,
     by |-> r]

\* (variant) a failed decode clears the authenticity flag
verifyOutput_decodeGated(data, decodedMeta) ==
    [is_authentic |-> ToBoolean(destructure(data).is_authentic) /\ ~IsNull(decodedMeta),
     confidence_score |-> Coalesce(destructure(data).confidence_score, 0),
     decoded_meta |-> decodedMeta]

\* the object verify returns
verifyOutput(data, decodedMeta) ==
    [is_authentic |-> ToBoolean(destructure(data).is_authentic),
     confidence_score |-> Coalesce(destructure(data).confidence_score, 0),
     decoded_meta |-> decodedMeta]

\* const decodedMeta = token ? this.decodeToken(token) : null
decodeIfPresent(data) ==
    IF Truthy(destructure(data).token)
    THEN decodeToken(Val(destructure(data).token))
    ELSE Null

Finish(r, resp) ==
    req' = [req EXCEPT ![r] = [@ EXCEPT !.pc = "done", !.timeout = Null,
                                        !.response = Some(resp)]]

\* POST /qr/generate received: safeParse, then service.generate up to its
\* await of axios.post; `body` is the request body, `now` what Date.now()
\* returns
GenerateRequest(r, bodies, clock) ==
    /\ proc = "serving"
    /\ req[r].pc = "idle"
    /\ UNCHANGED <<auditCollection, verifyCollection, env, config, proc>>
    /\ \E body \in bodies, now \in clock :
       IF fieldErrors(body) # {}
       THEN req' = [req EXCEPT ![r] = [@ EXCEPT
                !.kind = "generate", !.pc = "done", !.body = Some(body),
                !.response = Some(errorHandler(
                    HttpException(400, <<"Invalid request body">>, fieldErrors(body))))]]
       ELSE IF ~IsNull(assertAll(body, 1))
       THEN req' = [req EXCEPT ![r] = [@ EXCEPT
                !.kind = "generate", !.pc = "done", !.body = Some(body),
                !.input = Some(body), !.serviceCalled = TRUE,
                !.response = Some(errorHandler(Val(assertAll(body, 1))))]]
       ELSE req' = [req EXCEPT ![r] = [@ EXCEPT
                !.kind = "generate", !.pc = "render", !.body = Some(body),
                !.input = Some(body), !.serviceCalled = TRUE,
                !.timestampMs = Some(now),
                !.token = Some(buildToken(body, now, secret)),
                !.calls = @ + 1,
                !.timeout = Some(Val(config).requestTimeoutMs)]]

\* axios.post(.../generate-protected-qr) resolves with body `data`; generate
\* reads the image and calls insertOne
RenderResponds(r, answers) ==
    /\ req[r].kind = "generate"
    /\ req[r].pc = "render"
    /\ UNCHANGED <<auditCollection, verifyCollection, env, config, proc>>
    /\ \E data \in answers :
       req' = [req EXCEPT ![r] = [@ EXCEPT
            !.pc = "insert", !.timeout = Null,
            !.pythonRes = Some([data |-> data]),
            !.qrImageBase64 = IF IsNull(data) THEN Null ELSE Val(data).qr_image_base64]]

\* (variant) the audit document is written before the render outcome is known
RenderFails_auditFirst(r) ==
    /\ req[r].kind = "generate"
    /\ req[r].pc = "render"
    /\ UNCHANGED <<verifyCollection, env, config, proc>>
    /\ auditCollection' = Append(auditCollection,
            auditDocument(r, Val(req[r].token), Val(req[r].input), Val(req[r].timestampMs)))
    /\ req' = [req EXCEPT ![r] = [@ EXCEPT
            !.pc = "done", !.timeout = Null, !.upstreamFailed = TRUE,
            !.response = Some(errorHandler(OtherError(<<"axios error">>)))]]

\* axios.post rejects: the service answered with an error status, was
\* unreachable, or did not answer within requestTimeoutMs
RenderFails(r) ==
    /\ req[r].kind = "generate"
    /\ req[r].pc = "render"
    /\ UNCHANGED <<auditCollection, verifyCollection, env, config, proc>>
    /\ req' = [req EXCEPT ![r] = [@ EXCEPT
            !.pc = "done", !.timeout = Null, !.upstreamFailed = TRUE,
            !.response = Some(errorHandler(OtherError(<<"axios error">>)))]]

\* auditCollection.insertOne resolves; generate returns and the controller
\* answers 200
\* (variant) the token is kept in a field of the service shared by all
\* invocations, so the record may carry the token of another invocation
AuditInsertOk_sharedToken(r, clock) ==
    /\ req[r].kind = "generate"
    /\ req[r].pc = "insert"
    /\ UNCHANGED <<verifyCollection, env, config, proc>>
    /\ \E now \in clock, q \in Reqs :
       /\ ~IsNull(req[q].token)
       /\ auditCollection' = Append(auditCollection,
            auditDocument(r, Val(req[q].token), Val(req[r].input), now))
    /\ Finish(r, okResponse(generateOutput(Val(req[r].token), req[r].qrImageBase64)))

AuditInsertOk(r, clock) ==
    /\ req[r].kind = "generate"
    /\ req[r].pc = "insert"
    /\ UNCHANGED <<verifyCollection, env, config, proc>>
    /\ \E now \in clock :
       auditCollection' = Append(auditCollection,
            auditDocument(r, Val(req[r].token), Val(req[r].input), now))
    /\ Finish(r, okResponse(generateOutput(Val(req[r].token), req[r].qrImageBase64)))

\* auditCollection.insertOne rejects; the exception leaves generate
AuditInsertFails(r) ==
    /\ req[r].kind = "generate"
    /\ req[r].pc = "insert"
    /\ UNCHANGED <<auditCollection, verifyCollection, env, config, proc>>
    /\ req' = [req EXCEPT ![r] = [@ EXCEPT
            !.pc = "done", !.insertFailed = TRUE,
            !.response = Some(errorHandler(OtherError(<<"mongo error">>)))]]

\* POST /qr/verify received: the controller checks req.file, then
\* service.verify up to its await of axios.post
VerifyRequest(r) ==
    /\ proc = "serving"
    /\ req[r].pc = "idle"
    /\ UNCHANGED <<auditCollection, verifyCollection, env, config, proc>>
    /\ \E hasFile \in BOOLEAN :
       IF ~hasFile
       THEN req' = [req EXCEPT ![r] = [@ EXCEPT
                !.kind = "verify", !.pc = "done",
                !.response = Some(errorHandler(
                    HttpException(400, <<"Image file is required">>, {})))]]
       ELSE req' = [req EXCEPT ![r] = [@ EXCEPT
                !.kind = "verify", !.pc = "detect", !.serviceCalled = TRUE,
                !.calls = @ + 1,
                !.timeout = Some(Val(config).requestTimeoutMs)]]

\* axios.post(.../verify-protected-qr) resolves with body `data`; verify
\* decodes the token, if any, and calls insertOne
DetectResponds(r, answers) ==
    /\ req[r].kind = "verify"
    /\ req[r].pc = "detect"
    /\ UNCHANGED <<auditCollection, verifyCollection, env, config, proc>>
    /\ \E data \in answers :
       req' = [req EXCEPT ![r] = [@ EXCEPT
            !.pc = "insert", !.timeout = Null,
            !.pythonRes = Some([data |-> data]),
            !.decodedMeta = decodeIfPresent(data)]]

\* (variant) a rejected detection call is issued once more before giving up
DetectFails_retryOnce(r) ==
    /\ req[r].kind = "verify"
    /\ req[r].pc = "detect"
    /\ UNCHANGED <<auditCollection, verifyCollection, env, config, proc>>
    /\ IF req[r].calls < 2
       THEN req' = [req EXCEPT ![r] = [@ EXCEPT !.calls = @ + 1]]
       ELSE req' = [req EXCEPT ![r] = [@ EXCEPT
                !.pc = "done", !.timeout = Null, !.upstreamFailed = TRUE,
                !.response = Some(errorHandler(OtherError(<<"axios error">>)))]]

\* axios.post rejects
DetectFails(r) ==
    /\ req[r].kind = "verify"
    /\ req[r].pc = "detect"
    /\ UNCHANGED <<auditCollection, verifyCollection, env, config, proc>>
    /\ req' = [req EXCEPT ![r] = [@ EXCEPT
            !.pc = "done", !.timeout = Null, !.upstreamFailed = TRUE,
            !.response = Some(errorHandler(OtherError(<<"axios error">>)))]]

\* verifyCollection.insertOne resolves; verify returns and the controller
\* answers 200
VerifyInsertOk(r, clock) ==
    /\ req[r].kind = "verify"
    /\ req[r].pc = "insert"
    /\ UNCHANGED <<auditCollection, env, config, proc>>
    /\ \E now \in clock :
       verifyCollection' = Append(verifyCollection,
            verifyDocument(r, Val(req[r].pythonRes).data, now))
    /\ Finish(r, okResponse(verifyOutput(Val(req[r].pythonRes).data, req[r].decodedMeta)))

\* verifyCollection.insertOne rejects
VerifyInsertFails(r) ==
    /\ req[r].kind = "verify"
    /\ req[r].pc = "insert"
    /\ UNCHANGED <<auditCollection, verifyCollection, env, config, proc>>
    /\ req' = [req EXCEPT ![r] = [@ EXCEPT
            !.pc = "done", !.insertFailed = TRUE,
            !.response = Some(errorHandler(OtherError(<<"mongo error">>)))]]

\* the process evaluates its modules: config/index.js throws when a
\* required variable is missing, and the process dies before start() runs
LoadModules ==
    /\ proc = "loading"
    /\ config' = loadConfig(env)
    /\ proc' = IF IsNull(loadConfig(env)) THEN "exited" ELSE "connecting"
    /\ UNCHANGED <<req, auditCollection, verifyCollection, env>>

\* start(): client.connect() resolves, createApp, app.listen
MongoConnects ==
    /\ proc = "connecting"
    /\ proc' = "serving"
    /\ UNCHANGED <<req, auditCollection, verifyCollection, env, config>>

\* start() rejects: logger.error, process.exit(1)
MongoConnectFails ==
    /\ proc = "connecting"
    /\ proc' = "exited"
    /\ UNCHANGED <<req, auditCollection, verifyCollection, env, config>>

----------------------------------------------------------------------------
(* What clients send and what the pattern service answers *)

ExampleBody ==
    [data_hash |-> <<"a","1","b","2","c","3","d","4">>,
     metadata_series |-> <<"1","2","3","4","5","6","7","8","9","0","a","b","c","d","e","f">>,
     metadata_issued |-> <<"0","0","1","1","2","2","3","3","4","4","5","5","6","6","7","7">>,
     metadata_expiry |-> <<"8","8","9","9","a","a","b","b","c","c","d","d","e","e","f","f">>]

\* 1700000000000 ms and the two ends of the 48-bit range
T0 == [hi |-> 101327, lo |-> 15034368]
T1 == [hi |-> 101327, lo |-> 15034369]
TMin == [hi |-> 0, lo |-> 0]
TMax == [hi |-> 16777215, lo |-> 16777215]

CoreClock == {T0, T1}
WideClock == {T0, TMin, TMax}

CoreBodies ==
    {ExampleBody,
     [ExampleBody EXCEPT !.data_hash = <<"a","1","b","2","c","3">>],
     [ExampleBody EXCEPT !.metadata_issued =
        <<"0","0","1","1","2","2","3","3","4","4","5","5","6","6","7","g">>]}

WideDataHash ==
    {<<"a","1","b","2","c","3","d","4">>,
     <<"A","1","B","2","C","3","D","4">>,
     <<"f","f","f","f","f","b","e","f">>,
     <<"a","1","b","2","c","3">>,
     <<"g","1","b","2","c","3","d","4">>,
     <<>>}
WideSeries ==
    {<<"1","2","3","4","5","6","7","8","9","0","a","b","c","d","e","f">>,
     <<"0","0","0","0","0","0","0","0","F","b","f","F","3","e","0","0">>,
     <<"z","z","3","4","5","6","7","8","9","0","a","b","c","d","e","f">>,
     <<"1","2","3","4">>}
WideIssued ==
    {<<"0","0","1","1","2","2","3","3","4","4","5","5","6","6","7","7">>,
     <<"0","0","1","1","2","2","3","3","4","4","5","5","6","6","7","g">>}
WideExpiry ==
    {<<"8","8","9","9","a","a","b","b","c","c","d","d","e","e","f","f">>,
     <<"F","F","F","F","F","F","F","F","F","F","F","B","F","F","3","E">>,
     <<"8","8","9","9","a","a","b","b","c","c","d","d","e","e","f","f","0">>}

WideBodies ==
    [data_hash : WideDataHash, metadata_series : WideSeries,
     metadata_issued : WideIssued, metadata_expiry : WideExpiry]

\* bodies of the render endpoint: an image, an object without the image
\* field, no body at all
ImageText == <<"i","V","B","O","R","w","0">>
CoreRenderData == {Some([qr_image_base64 |-> Some(ImageText)]),
                   Some([qr_image_base64 |-> Null])}
WideRenderData == CoreRenderData \cup {Null}

\* a character whose code differs from c's in one bit: the other case of a
\* letter, the neighbouring digit
FlipBit(c) ==
    LET i == Unbase64(c) + 1
    IN  IF c \in {"+", "/", "-", "_", ".", "="} \/ i = 0 THEN "?"
        ELSE IF i <= 26 THEN B64Alphabet[i + 26]
        ELSE IF i <= 52 THEN B64Alphabet[i - 26]
        ELSE IF i % 2 = 1 THEN B64Alphabet[i + 1] ELSE B64Alphabet[i - 1]

TamperedAt(token, p) == [token EXCEPT ![p] = FlipBit(token[p])]

\* a token this server issued, and texts a scanned image may carry instead
RefToken == buildToken(ExampleBody, T0, "s3cr3t")
RefPayload == FirstSegment(RefToken)
RefSig == SubSeq(RefToken, Len(RefPayload) + 2, Len(RefToken))

ForgedTokens ==
    {TamperedAt(RefToken, 12),
     TamperedAt(RefToken, Len(RefPayload) + 2),
     TamperedAt(RefToken, Len(RefToken)),
     RefPayload,
     RefPayload \o <<".">> \o [i \in 1..Len(RefSig) |-> "z"],
     RefPayload \o <<".">> \o SubSeq(RefSig, 1, 8),
     SubSeq(RefPayload, 1, 10) \o <<".">> \o RefSig,
     SubSeq(RefPayload, 1, 44) \o <<".">> \o RefSig,
     RefPayload \o <<"A", ".">> \o RefSig,
     buildToken(ExampleBody, T0, "other-secret"),
     <<"n","o","p","e">>}

\* tokens issued so far by the requests of this run
IssuedTokens == {req[r].token : r \in {q \in Reqs : ~IsNull(req[q].token)}}

Scores == {Null, Some(20), Some(85)}
Flags == {Null, Some(TRUE), Some(FALSE)}

detection(token, score, flag) ==
    Some([token |-> token, confidence_score |-> score, is_authentic |-> flag])

CoreDetectData ==
    {Null}
    \cup {detection(t, Some(85), Some(TRUE)) : t \in IssuedTokens}
    \cup {detection(Null, Some(20), Some(FALSE)),
          detection(Some(TamperedAt(RefToken, Len(RefToken))), Null, Some(TRUE))}

WideDetectData ==
    {Null}
    \cup {detection(Some(t), Some(85), Some(TRUE)) : t \in ForgedTokens}
    \cup {detection(t, s, f) :
            t \in IssuedTokens \cup {Null, Some(<<>>), Some(TamperedAt(RefToken, 12))},
            s \in Scores, f \in Flags}

----------------------------------------------------------------------------
(* Specifications *)

\* a started server handling up to MaxReq requests at once
Init ==
    /\ req = [r \in 1..MaxReq |-> IdleReq]
    /\ auditCollection = <<>>
    /\ verifyCollection = <<>>
    /\ env = FullEnv
    /\ config = loadConfig(FullEnv)
    /\ proc = "serving"

Next ==
    \/ \E r \in Reqs : GenerateRequest(r, CoreBodies, CoreClock)
    \/ \E r \in Reqs : RenderResponds(r, CoreRenderData)
    \/ \E r \in Reqs : RenderFails(r)
    \/ \E r \in Reqs : AuditInsertOk(r, CoreClock)
    \/ \E r \in Reqs : AuditInsertFails(r)
    \/ \E r \in Reqs : VerifyRequest(r)
    \/ \E r \in Reqs : DetectResponds(r, CoreDetectData)
    \/ \E r \in Reqs : DetectFails(r)
    \/ \E r \in Reqs : VerifyInsertOk(r, CoreClock)
    \/ \E r \in Reqs : VerifyInsertFails(r)

Spec == Init /\ [][Next]_vars

\* the same server taking one generate request and then one verify
\* request, over the wide sets of bodies, clock values and pattern-service
\* answers
InitWide ==
    /\ req = [r \in {1, 2} |-> IdleReq]
    /\ auditCollection = <<>>
    /\ verifyCollection = <<>>
    /\ env = FullEnv
    /\ config = loadConfig(FullEnv)
    /\ proc = "serving"

NextWide ==
    \/ GenerateRequest(1, WideBodies, WideClock)
    \/ RenderResponds(1, WideRenderData)
    \/ RenderFails(1)
    \/ AuditInsertOk(1, {T1})
    \/ AuditInsertFails(1)
    \/ req[1].pc = "done" /\ VerifyRequest(2)
    \/ DetectResponds(2, WideDetectData)
    \/ DetectFails(2)
    \/ VerifyInsertOk(2, {T1})
    \/ VerifyInsertFails(2)

\* An awaited call that was given a timeout settles: it resolves or rejects
\* by itself or, at the latest, is rejected when its timer fires (a timeout
\* of 0 disables the timer).  Nothing makes a call without one settle.
Armed(r) == ~IsNull(req[r].timeout) /\ Val(req[r].timeout) > 0

Settles(r) ==
    \/ RenderResponds(r, CoreRenderData)
    \/ RenderFails(r)
    \/ AuditInsertOk(r, CoreClock)
    \/ AuditInsertFails(r)
    \/ DetectResponds(r, CoreDetectData)
    \/ DetectFails(r)
    \/ VerifyInsertOk(r, CoreClock)
    \/ VerifyInsertFails(r)

SpecLive ==
    /\ Init
    /\ [][Next]_vars
    /\ \A r \in 1..MaxReq : WF_vars(Armed(r) /\ Settles(r))

SpecWide == InitWide /\ [][NextWide]_vars

\* the process from its first instruction, under every environment: each
\* variable unset, empty or set
InitStart ==
    /\ req = [r \in 1..MaxReq |-> IdleReq]
    /\ auditCollection = <<>>
    /\ verifyCollection = <<>>
    /\ \E unset \in SUBSET EnvNames : \E empty \in SUBSET (EnvNames \ unset) :
         env = [k \in EnvNames |-> IF k \in unset THEN Null
                                   ELSE IF k \in empty THEN Some("")
                                   ELSE Some(EnvValue(k))]
    /\ config = Null
    /\ proc = "loading"

NextStart ==
    \/ LoadModules
    \/ MongoConnects
    \/ MongoConnectFails

SpecStart == InitStart /\ [][NextStart]_vars

----------------------------------------------------------------------------
(* Properties *)

\* the documents of a collection that invocation r inserted
DocsBy(coll, r) == {i \in DOMAIN coll : coll[i].by = r}

\* the pattern service's answer to request r, destructured
Detected(r) == destructure(Val(req[r].pythonRes).data)

\* token has the form <payload>.<sig>, its payload decodes to 34 bytes, and
\* sig is the 32-hex signature of those bytes under the server secret
SignatureMatches(token) ==
    LET seg == FirstSegment(token)
        payload == FromBase64(seg)
    IN  /\ Len(seg) < Len(token)
        /\ Len(payload) = PayloadLength
        /\ SubSeq(token, Len(seg) + 2, Len(token)) = hmacHex(secret, payload)

\* C1: verify produces decoded metadata only for a token <payload>.<sig>
\* whose signature segment equals the signature recomputed over its 34-byte
\* payload; for every other token decoded_meta is null.
C1_DecodedOnlyIfSigned ==
    \A r \in Reqs :
        (/\ req[r].kind = "verify"
         /\ req[r].pc \in {"insert", "done"}
         /\ ~IsNull(req[r].decodedMeta))
        => SignatureMatches(Val(Detected(r).token))

\* C2: every verify invocation that has ended, the ones whose detection
\* call failed or timed out included, has appended exactly one verification
\* record.
C2_OneRecordPerVerify ==
    \A r \in Reqs :
        (/\ req[r].kind = "verify"
         /\ req[r].serviceCalled
         /\ req[r].pc = "done"
         /\ ~req[r].insertFailed)
        => Cardinality(DocsBy(verifyCollection, r)) = 1

\* C3: when the render call succeeded and the audit append then failed,
\* generate still answers with {token, rendered image}.
C3_AuditFailureStillReturns ==
    \A r \in Reqs :
        (/\ req[r].kind = "generate"
         /\ req[r].pc = "done"
         /\ ~IsNull(req[r].pythonRes)
         /\ req[r].insertFailed)
        => /\ Val(req[r].response).status = 200
           /\ Val(req[r].response).data
                = Some(generateOutput(Val(req[r].token), req[r].qrImageBase64))

\* C4: generate never returns a token without an image: when the render
\* call fails or times out, or its answer carries no image, the request
\* fails and no token is returned.
C4_NoTokenWithoutImage ==
    \A r \in Reqs :
        (/\ req[r].kind = "generate"
         /\ req[r].pc = "done"
         /\ \/ req[r].upstreamFailed
            \/ ~IsNull(req[r].pythonRes) /\ IsNull(req[r].qrImageBase64))
        => /\ Val(req[r].response).status # 200
           /\ IsNull(Val(req[r].response).data)

\* C5: a generate invocation that returns successfully has appended exactly
\* one audit record, holding its token and the four input fields, after the
\* render succeeded and before it returned; one whose validation failed has
\* appended none, called no render and built no token; one whose render
\* failed has appended none.
C5_AuditExactlyOnce ==
    \A r \in Reqs :
        req[r].kind = "generate" =>
            LET mine == DocsBy(auditCollection, r)
                resp == Val(req[r].response)
            IN  /\ Cardinality(mine) <= 1
                /\ mine # {} => ~IsNull(req[r].pythonRes) /\ req[r].pc = "done"
                /\ (req[r].pc = "done" /\ resp.status = 200) =>
                        /\ Cardinality(mine) = 1
                        /\ \A i \in mine :
                            /\ auditCollection[i].token = Val(resp.data).token
                            /\ \A k \in 1..4 :
                                auditCollection[i][Fields[k]] = Val(req[r].body)[Fields[k]]
                /\ (req[r].pc = "done" /\ resp.status = 400) =>
                        /\ mine = {}
                        /\ req[r].calls = 0
                        /\ IsNull(req[r].token)
                /\ req[r].upstreamFailed => mine = {}

C5_Witness ==
    \E r \in Reqs :
        /\ req[r].kind = "generate"
        /\ req[r].pc = "done"
        /\ Val(req[r].response).status = 200
        /\ Cardinality(DocsBy(auditCollection, r)) = 1
        /\ \E q \in Reqs : /\ req[q].kind = "generate"
                           /\ req[q].pc = "done"
                           /\ Val(req[q].response).status = 400

\* C6: decoding the token generate built from valid fields and a 48-bit
\* timestamp gives back the bytes of the four fields.
C6_RoundTrip ==
    \A g \in Reqs : \A v \in Reqs :
        (/\ req[g].kind = "generate"
         /\ ~IsNull(req[g].token)
         /\ req[v].kind = "verify"
         /\ ~IsNull(req[v].pythonRes)
         /\ Detected(v).token = req[g].token)
        => /\ ~IsNull(req[v].decodedMeta)
           /\ \A k \in 1..4 :
                hexToBuffer(Val(req[v].decodedMeta)[Fields[k]])
                    = hexToBuffer(Val(req[g].input)[Fields[k]])
           /\ Len(hexToBuffer(Val(req[v].decodedMeta).data_hash)) = 4
           /\ \A k \in 2..4 : Len(hexToBuffer(Val(req[v].decodedMeta)[Fields[k]])) = 8

C6_Witness ==
    \E g \in Reqs : \E v \in Reqs :
        /\ req[g].kind = "generate"
        /\ req[g].timestampMs = Some(TMax)
        /\ Val(req[g].input).data_hash = <<"f","f","f","f","f","b","e","f">>
        /\ req[v].kind = "verify"
        /\ ~IsNull(req[v].pythonRes)
        /\ Detected(v).token = req[g].token
        /\ ~IsNull(req[v].decodedMeta)

\* C7: the is_authentic and confidence_score verify returns and records are
\* the detector's own (false and 0 when it omits them), whether or not a
\* token is present and whether or not it decodes.
C7_FlagsCarriedThrough ==
    \A r \in Reqs :
        (/\ req[r].kind = "verify"
         /\ req[r].pc = "done"
         /\ Val(req[r].response).status = 200)
        => LET flag == Detected(r).is_authentic = Some(TRUE)
               score == IF IsNull(Detected(r).confidence_score) THEN 0
                        ELSE Val(Detected(r).confidence_score)
               out == Val(Val(req[r].response).data)
           IN  /\ out.is_authentic = flag
               /\ out.confidence_score = score
               /\ \A i \in DocsBy(verifyCollection, r) :
                    /\ verifyCollection[i].is_authentic = flag
                    /\ verifyCollection[i].confidence_score = score
               /\ DocsBy(verifyCollection, r) # {}

C7_Witness ==
    \E r \in Reqs :
        /\ req[r].kind = "verify"
        /\ req[r].pc = "done"
        /\ Val(req[r].response).status = 200
        /\ Truthy(Detected(r).token)
        /\ IsNull(req[r].decodedMeta)
        /\ Detected(r).is_authentic = Some(TRUE)
        /\ Detected(r).confidence_score = Some(85)

\* C8: when the detection call succeeded, whatever token it returned that
\* is not a validly signed one (malformed, wrong length, bad signature),
\* verify completes normally with decoded_meta = null.
C8_InvalidTokenYieldsNull ==
    \A r \in Reqs :
        (/\ req[r].kind = "verify"
         /\ req[r].pc = "done"
         /\ ~IsNull(req[r].pythonRes)
         /\ ~req[r].insertFailed
         /\ ~IsNull(Detected(r).token)
         /\ ~SignatureMatches(Val(Detected(r).token)))
        => /\ Val(req[r].response).status = 200
           /\ IsNull(Val(Val(req[r].response).data).decoded_meta)

\* the fields of a body that are not hex-only or not of the required length
Violating(body) ==
    {Fields[i] : i \in {j \in 1..4 :
        \/ ~IsHexString(body[Fields[j]])
        \/ Len(body[Fields[j]]) # SchemaLength(Fields[j])}}

\* C9: when several fields of a generate body are invalid at once, the
\* validation failure names every one of them.
C9_AllViolationsNamed ==
    \A r \in Reqs :
        (/\ req[r].kind = "generate"
         /\ req[r].pc = "done"
         /\ Cardinality(Violating(Val(req[r].body))) >= 2)
        => /\ Val(req[r].response).status = 400
           /\ Val(Val(req[r].response).error).fields = Violating(Val(req[r].body))

Mandatory == EnvNames \ {"LOG_LEVEL"}

\* C10: with any mandatory option missing (port, store connection string,
\* database name, pattern-service URL, signing secret, call timeout) the
\* process never starts serving.
C10_MissingConfigIsFatal ==
    (\E k \in Mandatory : IsNull(env[k])) => proc # "serving"

\* the bytes the payload segment of a token decodes to
PayloadBytes(token) == FromBase64(FirstSegment(token))

\* C11: a token whose payload segment decodes to a number of bytes other
\* than 34 is rejected (decoded_meta null); metadata comes only from a
\* 34-byte payload and is then complete: bytes 6-10, 10-18, 18-26, 26-34.
C11_LengthInvariant ==
    \A r \in Reqs :
        (/\ req[r].kind = "verify"
         /\ ~IsNull(req[r].pythonRes)
         /\ Truthy(Detected(r).token))
        => LET payload == PayloadBytes(Val(Detected(r).token))
               meta == req[r].decodedMeta
           IN  /\ Len(payload) # 34 => IsNull(meta)
               /\ ~IsNull(meta) =>
                    /\ Len(payload) = 34
                    /\ hexToBuffer(Val(meta).data_hash) = SubSeq(payload, 7, 10)
                    /\ hexToBuffer(Val(meta).metadata_series) = SubSeq(payload, 11, 18)
                    /\ hexToBuffer(Val(meta).metadata_issued) = SubSeq(payload, 19, 26)
                    /\ hexToBuffer(Val(meta).metadata_expiry) = SubSeq(payload, 27, 34)

C11_Witness ==
    \E r \in Reqs :
        /\ req[r].kind = "verify"
        /\ req[r].pc = "done"
        /\ ~IsNull(req[r].pythonRes)
        /\ Truthy(Detected(r).token)
        /\ Len(PayloadBytes(Val(Detected(r).token))) = 35
        /\ IsNull(req[r].decodedMeta)

\* the text of a token after its first '.'
SigSegment(token) == SubSeq(token, Len(FirstSegment(token)) + 2, Len(token))

C13_NoSilentRetry ==
    \A r \in Reqs :
        /\ req[r].calls <= 1
        /\ req[r].upstreamFailed =>
            /\ req[r].calls = 1
            /\ req[r].pc = "done"
            /\ IsNull(req[r].pythonRes)
            /\ Val(req[r].response).status >= 500
            /\ Val(req[r].response).status <= 599
            /\ IsNull(Val(req[r].response).data)

C13_Witness ==
    \E g \in Reqs : \E v \in Reqs :
        /\ req[g].kind = "generate" /\ req[g].upstreamFailed
        /\ req[v].kind = "verify" /\ req[v].upstreamFailed
        /\ Val(req[g].response).status = 500
        /\ Val(req[v].response).status = 500

\* C14: every generate and verify invocation eventually completes, even if
\* the pattern service never answers or the store append never completes.
C14_EveryInvocationCompletes ==
    \A r \in 1..MaxReq : (req[r].pc # "idle") ~> (req[r].pc = "done")

\* the secret read at start-up, and the token generate builds under it for
\* each valid body and captured timestamp (tabulated once)
ServerSecret == Val(loadConfig(FullEnv)).hmacSecret

OwnTokens ==
    {[body |-> b, timestampMs |-> t, token |-> buildToken(b, t, ServerSecret)] :
        b \in {x \in CoreBodies : fieldErrors(x) = {} /\ IsNull(assertAll(x, 1))},
        t \in CoreClock}

\* the invocation's insertOne resolved
Appended(r) ==
    /\ req[r].pc = "done"
    /\ ~IsNull(req[r].pythonRes)
    /\ ~req[r].insertFailed

\* C15: under every interleaving of concurrent generate and verify
\* invocations, the result of each invocation and the one record it appends
\* are functions of its own input, its own captured timestamp and its own
\* pattern-service answer; no record is lost, duplicated or mixed with
\* another invocation's token or fields, and the store holds exactly one
\* record for each invocation whose append was performed and none for any
\* other.
C15_InvocationsIsolated ==
    /\ Len(auditCollection) + Len(verifyCollection)
            = Cardinality({r \in Reqs : Appended(r)})
    /\ \A r \in Reqs :
        LET a == DocsBy(auditCollection, r)
            v == DocsBy(verifyCollection, r)
        IN  /\ Cardinality(a) = IF req[r].kind = "generate" /\ Appended(r) THEN 1 ELSE 0
            /\ Cardinality(v) = IF req[r].kind = "verify" /\ Appended(r) THEN 1 ELSE 0
            /\ ~IsNull(req[r].token) =>
                    /\ req[r].input = req[r].body
                    /\ secret = ServerSecret
                    /\ [body |-> Val(req[r].body),
                        timestampMs |-> Val(req[r].timestampMs),
                        token |-> Val(req[r].token)] \in OwnTokens
            /\ \A i \in a :
                    /\ auditCollection[i].token = Val(req[r].token)
                    /\ \A k \in 1..4 :
                        auditCollection[i][Fields[k]] = Val(req[r].body)[Fields[k]]
            /\ (req[r].kind = "generate" /\ Appended(r)) =>
                    Val(req[r].response) = okResponse(generateOutput(
                        Val(req[r].token),
                        Val(Val(req[r].pythonRes).data).qr_image_base64))
            /\ \A i \in v :
                    /\ verifyCollection[i].token = Detected(r).token
                    /\ verifyCollection[i].confidence_score
                            = Coalesce(Detected(r).confidence_score, 0)
                    /\ verifyCollection[i].is_authentic
                            = ToBoolean(Detected(r).is_authentic)
            /\ (req[r].kind = "verify" /\ Appended(r)) =>
                    Val(req[r].response) = okResponse(verifyOutput(
                        Val(req[r].pythonRes).data,
                        decodeIfPresent(Val(req[r].pythonRes).data)))

\* one generate invocation has appended its record and answered while
\* another, for the same body but with a different captured timestamp and so
\* a different token, is still suspended at its own append
C15_Witness ==
    \E r \in Reqs : \E q \in Reqs \ {r} :
        /\ req[r].kind = "generate" /\ req[q].kind = "generate"
        /\ Appended(r)
        /\ req[q].pc = "insert"
        /\ req[r].body = req[q].body
        /\ req[r].timestampMs # req[q].timestampMs
        /\ req[r].token # req[q].token
        /\ Cardinality(DocsBy(auditCollection, r)) = 1
        /\ DocsBy(auditCollection, q) = {}

====
